---- MODULE Spec2Model ----
(***************************************************************************)
(* Campaign scheduling and budget orchestration of the marketing backend:  *)
(* the campaigns and schedules tables, the APScheduler job store, the      *)
(* coroutines of the asyncio event loop (request handlers, background      *)
(* execution runs, the budget_rebalancing job) and the SLSQP rebalance.    *)
(*                                                                         *)
(* Money is in whole dollars.  The event loop runs one coroutine at a      *)
(* time and switches only where a coroutine really suspends: `cur` is the  *)
(* frame of the coroutine that owns the loop, `waiting` the suspended      *)
(* ones.  rebalance_budgets is split in its three phases (read, solve,     *)
(* write) so that what happens between them is visible; a handler that     *)
(* awaits it continues in the frame's "ret" step.                          *)
(***************************************************************************)
EXTENDS Integers, Sequences, FiniteSets, TLC

\* ---------------------------------------------------------------- bounds
NumCampaigns == 1
MaxSchedules == 2
MaxRuns == 2
MaxUnits == 9
MaxMetrics == 2

\* ------------------------------------------------------ program constants
MIN_CAMPAIGN_BUDGET == 100
MAX_BUDGET_ALLOCATION_PERCENT == 50
REBALANCING_THRESHOLD_PERCENT == 15
CAMPAIGN_RETRY_ATTEMPTS == 3

CampaignIds == 1..NumCampaigns
ScheduleIds == 1..MaxSchedules

\* Budgets a request can carry (CampaignUpdate.budget is an unchecked float).
UserBudgets == {0, 200}
\* The points the solver's answer is drawn from.
Grid == {100 * k : k \in 0..MaxUnits}
\* Campaign.frequency is a free string; "hourly" stands for one outside the map.
Frequencies == {"weekly", "hourly"}
\* Statuses a CampaignUpdate request can write.
UpdateStatuses == {"active", "paused"}
\* The instants a request can name as scheduled_time: one before and one
\* after every instant at which a schedule record is created.
RequestTimes == {0, MaxSchedules + 1}

VARIABLES
    campaigns,      \* campaigns table: id -> [status, budget, frequency]
    nextCampaign,   \* ids are never reused (uuid4)
    schedules,      \* schedules table, in creation order:
                    \* [id, c, status, job, time (scheduled_time)]
    nextSchedule,   \* next schedule id / uuid job id
    jobs,           \* MemoryJobStore: job id -> [c, trigger, every]
    setup,          \* an active SetupConfiguration row exists
    cur,            \* frame of the coroutine that owns the event loop
    waiting,        \* suspended / not yet started coroutines
    cancelLog,      \* the cancel_job calls of the last handler
    ev,             \* the last handler's outcome
    metrics         \* metrics table, in insertion order: the campaign_id
                    \* of each row (0 once the campaign is deleted)

vars == <<campaigns, nextCampaign, schedules, nextSchedule, jobs, setup,
          cur, waiting, cancelLog, ev, metrics>>

Idle == [op |-> "idle", pc |-> "idle", c |-> 0, snap |-> <<>>, prop |-> <<>>,
         res |-> "none", out |-> {}]

NoEvent == [op |-> "none", c |-> 0, res |-> "none"]

\* Only the outcomes that are not a plain success are kept.
Event(op, c, res) ==
    IF res = "ok" THEN NoEvent ELSE [op |-> op, c |-> c, res |-> res]

Abs(x) == IF x < 0 THEN 0 - x ELSE x

RECURSIVE SumOver(_, _)
SumOver(f, S) ==
    IF S = {} THEN 0
    ELSE LET i == CHOOSE x \in S : TRUE IN f[i] + SumOver(f, S \ {i})

Sum(f) == SumOver(f, DOMAIN f)

\* ------------------------------------------------------------ job store
RecurringJobId(c) == <<"recurring", c>>
UuidJobId(n) == <<"uuid", n>>
RebalancingJobId == <<"budget_rebalancing", 0>>

add_job_keep_existing(store, id, job) ==
    [k \in DOMAIN store \cup {id} |->
        IF k \in DOMAIN store THEN store[k] ELSE job]

\* scheduler.add_job(..., id=job_id, replace_existing=True)
add_job(store, id, job) ==
    [k \in DOMAIN store \cup {id} |-> IF k = id THEN job ELSE store[k]]

\* scheduler.remove_job: JobLookupError when the id is not in the store
remove_job(store, id) ==
    IF id \in DOMAIN store
    THEN [store |-> [k \in DOMAIN store \ {id} |-> store[k]], raised |-> FALSE]
    ELSE [store |-> store, raised |-> TRUE]

cancel_job_no_except(store, id) ==
    LET r == remove_job(store, id)
    IN  [store |-> r.store, ret |-> TRUE, raised |-> r.raised]

cancel_job(store, id) ==
    LET r == remove_job(store, id)
    IN  IF r.raised
        THEN [store |-> store, ret |-> FALSE, raised |-> FALSE]
        ELSE [store |-> r.store, ret |-> TRUE, raised |-> FALSE]

\* interval_map.get(frequency, {'hours': 24}), in hours
IntervalHours(frequency) ==
    CASE frequency = "daily" -> 24
      [] frequency = "weekly" -> 168
      [] frequency = "monthly" -> 672
      [] OTHER -> 24

schedule_recurring_campaign(store, c, frequency, id) ==
    add_job(store, id, [c |-> c, trigger |-> "interval",
                        every |-> IntervalHours(frequency)])

schedule_campaign_execution(store, c, id) ==
    add_job(store, id, [c |-> c, trigger |-> "date", every |-> 0])

\* interval_map.get(frequency, {'weeks': 1}), in hours
RebalanceIntervalHours(frequency) ==
    CASE frequency = "daily" -> 24
      [] frequency = "weekly" -> 168
      [] frequency = "monthly" -> 672
      [] OTHER -> 168

schedule_budget_rebalancing(store, frequency) ==
    add_job(store, RebalancingJobId,
            [c |-> 0, trigger |-> "interval",
             every |-> RebalanceIntervalHours(frequency)])

\* One cancel_job call as the log keeps it.
CancelEntry(store, id) ==
    LET r == cancel_job(store, id)
    IN  [job |-> id, had |-> id \in DOMAIN store, ret |-> r.ret,
         raised |-> r.raised, gone |-> id \notin DOMAIN r.store,
         kept |-> \A k \in DOMAIN store \ {id} :
                      k \in DOMAIN r.store /\ r.store[k] = store[k]]

\* cancel_job for each id of the sequence ids, in order: the store after the
\* calls and the log of the calls.
RECURSIVE CancelAll(_, _)
CancelAll(store, ids) ==
    IF ids = <<>> THEN [store |-> store, log |-> <<>>]
    ELSE LET r == cancel_job(store, Head(ids))
             rest == CancelAll(r.store, Tail(ids))
         IN  [store |-> rest.store,
              log |-> <<CancelEntry(store, Head(ids))>> \o rest.log]

\* ------------------------------------------------------------ event loop
Frame(op, pc, c) ==
    [op |-> op, pc |-> pc, c |-> c, snap |-> <<>>, prop |-> <<>>,
     res |-> "none", out |-> {}]

RemoveAt(seq, i) == SubSeq(seq, 1, i - 1) \o SubSeq(seq, i + 1, Len(seq))

\* The points where a coroutine gives the loop away: a background task that
\* has not started yet, and `await loop.run_in_executor(...)` in execute_crew.
\* Awaiting rebalance_budgets or generate_and_store_metrics does not suspend:
\* neither contains an await that reaches the loop.
SuspendsAlsoInSolve(pc) == pc \in {"start", "crew", "rb_solve"}

Suspends(pc) == pc \in {"start", "crew"}

\* The coroutine continues as frame f: it keeps the loop or is parked.
Place(f) ==
    IF Suspends(f.pc)
    THEN cur' = Idle /\ waiting' = Append(waiting, f)
    ELSE cur' = f /\ waiting' = waiting

\* The loop picks a parked coroutine.
Resume ==
    /\ cur = Idle
    /\ \E i \in 1..Len(waiting) :
        /\ cur' = waiting[i]
        /\ waiting' = RemoveAt(waiting, i)
    /\ ev' = NoEvent
    /\ cancelLog' = <<>>
    /\ UNCHANGED <<campaigns, nextCampaign, schedules, nextSchedule, jobs, setup, metrics>>

\* ------------------------------------------------------------ rebalance
ActiveIds(cs) == {c \in DOMAIN cs : cs[c].status = "active"}

\* current_budgets of the active campaigns, as the session read them
ReadBudgets(cs) == [c \in ActiveIds(cs) |-> cs[c].budget]

total_budget(snap) == Sum(snap)

LowerBound == MIN_CAMPAIGN_BUDGET

\* 100 times the upper bound total_budget * MAX_BUDGET_ALLOCATION_PERCENT / 100
UpperBoundTimes100Whole(total) == total * 100

UpperBoundTimes100(total) == total * MAX_BUDGET_ALLOCATION_PERCENT

\* SLSQP refuses bounds with lb > ub (ValueError) before it iterates.
BoundsAccepted(total) == 100 * LowerBound <= UpperBoundTimes100(total)

FeasibleWithinBoundsOnly(snap) ==
    LET total == total_budget(snap)
    IN  {x \in [DOMAIN snap -> Grid] :
            \A i \in DOMAIN snap :
                /\ x[i] >= LowerBound
                /\ 100 * x[i] <= UpperBoundTimes100(total)}

\* What a successful SLSQP run can return: a point of the grid inside the
\* bounds that meets the equality constraint sum(x) = total_budget.
Feasible(snap) ==
    LET total == total_budget(snap)
    IN  {x \in [DOMAIN snap -> Grid] :
            /\ \A i \in DOMAIN snap :
                /\ x[i] >= LowerBound
                /\ 100 * x[i] <= UpperBoundTimes100(total)
            /\ Sum(x) = total}

\* change_ratio = abs(new - old) / old > REBALANCING_THRESHOLD, in numpy
\* float arithmetic: x / 0 is inf for x > 0 (no exception), and a negative
\* old budget gives a negative ratio.
ChangeSignificantAbsolute(new, old) ==
    100 * Abs(new - old) > REBALANCING_THRESHOLD_PERCENT

ChangeSignificant(new, old) ==
    IF old = 0 THEN new # 0
    ELSE IF old < 0 THEN FALSE
    ELSE 100 * Abs(new - old) > REBALANCING_THRESHOLD_PERCENT * old

\* The campaigns the write phase updates: those of the snapshot whose change
\* passes the gate (old_budget is the value the session read).
Updated(f) ==
    {i \in DOMAIN f.snap : ChangeSignificant(f.prop[i], f.snap[i])}

\* rebalance_budgets is left: the caller sees the result list or the
\* exception, the locals are gone.
Return(f, res, out) ==
    [f EXCEPT !.pc = "ret", !.res = res, !.out = out, !.snap = <<>>,
              !.prop = <<>>]

\* rebalance_budgets, lines 90-117: read the active campaigns
rebalance_read ==
    /\ cur.pc = "rb_read"
    /\ IF ActiveIds(campaigns) = {}
       THEN Place(Return(cur, "no_active", {}))
       ELSE Place([cur EXCEPT !.pc = "rb_solve", !.snap = ReadBudgets(campaigns)])
    /\ UNCHANGED <<campaigns, nextCampaign, schedules, nextSchedule, jobs, setup,
                   cancelLog, ev, metrics>>

\* rebalance_budgets, lines 119-145: bounds, constraint, minimize
rebalance_solve ==
    /\ cur.pc = "rb_solve"
    /\ IF ~BoundsAccepted(total_budget(cur.snap))
       THEN Place(Return(cur, "raised", {}))
       ELSE \/ Place(Return(cur, "failed", {}))
            \/ \E x \in Feasible(cur.snap) :
                   Place([cur EXCEPT !.pc = "rb_write", !.prop = x])
    /\ UNCHANGED <<campaigns, nextCampaign, schedules, nextSchedule, jobs, setup,
                   cancelLog, ev, metrics>>

\* rebalance_budgets, lines 147-181: gate, write, commit.  A row deleted in
\* the meantime is not written.
rebalance_write ==
    /\ cur.pc = "rb_write"
    /\ campaigns' = [c \in DOMAIN campaigns |->
                        IF c \in Updated(cur)
                        THEN [campaigns[c] EXCEPT !.budget = cur.prop[c]]
                        ELSE campaigns[c]]
    /\ Place(Return(cur, "applied", Updated(cur)))
    /\ UNCHANGED <<nextCampaign, schedules, nextSchedule, jobs, setup,
                   cancelLog, ev, metrics>>

\* ------------------------------------------------------------ tables
PendingOf(c) ==
    SelectSeq(schedules, LAMBDA r : r.c = c /\ r.status = "pending")

RECURSIVE JobIdsOf(_)
JobIdsOf(recs) ==
    IF recs = <<>> THEN <<>> ELSE <<Head(recs).job>> \o JobIdsOf(Tail(recs))

HasSchedules(c) == \E i \in 1..Len(schedules) : schedules[i].c = c

\* Every pending schedule of campaign c gets the status st.
MarkPending(recs, c, st) ==
    [i \in 1..Len(recs) |->
        IF recs[i].c = c /\ recs[i].status = "pending"
        THEN [recs[i] EXCEPT !.status = st]
        ELSE recs[i]]

Handler == cur = Idle

Done(op, c, res) == cur' = Idle /\ ev' = Event(op, c, res)

\* ------------------------------------------------------------ setup
\* initialize_setup / update_setup: the active configuration row and the
\* budget_rebalancing job
initialize_setup(frequency) ==
    /\ Handler
    /\ setup' = TRUE
    /\ jobs' = schedule_budget_rebalancing(jobs, frequency)
    /\ Done("setup", 0, "ok")
    /\ cancelLog' = <<>>
    /\ UNCHANGED <<campaigns, nextCampaign, schedules, nextSchedule, waiting, metrics>>

\* ------------------------------------------------------------ campaigns
\* What POST /campaigns hands to the service: the frequency and the budget
\* of the request body, and the status "active" the endpoint adds itself.
CampaignRequests ==
    [frequency : Frequencies, budget : UserBudgets, status : {"active"}]

NewCampaignAsRequested(request) ==
    [status |-> request.status, budget |-> request.budget,
     frequency |-> request.frequency]

\* create_campaign, lines 39-48: the row that is inserted
NewCampaign(request) ==
    [status |-> "draft", budget |-> 0, frequency |-> request.frequency]

\* CampaignService.create_campaign: budget 0, status draft whatever the
\* request carried, then the rebalance
create_campaign(request) ==
    /\ Handler
    /\ nextCampaign <= NumCampaigns
    /\ campaigns' = [c \in DOMAIN campaigns \cup {nextCampaign} |->
                        IF c = nextCampaign
                        THEN NewCampaign(request)
                        ELSE campaigns[c]]
    /\ nextCampaign' = nextCampaign + 1
    /\ Place(Frame("create", "rb_read", nextCampaign))
    /\ ev' = NoEvent
    /\ cancelLog' = <<>>
    /\ UNCHANGED <<schedules, nextSchedule, jobs, setup, metrics>>

\* datetime.utcnow() as read when a schedule record is created: the readings
\* increase with every record, the k-th record is created at instant k.
utcnow == nextSchedule

\* activate_campaign, lines 104-128: status, recurring job, schedule record
ActivateBody(c) ==
    /\ campaigns' = [campaigns EXCEPT ![c].status = "active"]
    /\ jobs' = schedule_recurring_campaign(jobs, c, campaigns[c].frequency,
                                           RecurringJobId(c))
    /\ schedules' = Append(schedules,
                           [id |-> nextSchedule, c |-> c, status |-> "pending",
                            job |-> RecurringJobId(c), time |-> utcnow])
    /\ nextSchedule' = nextSchedule + 1

\* activate_campaign up to the budget check
activate_campaign(c) ==
    /\ Handler
    /\ c \in DOMAIN campaigns
    /\ cancelLog' = <<>>
    /\ IF campaigns[c].status = "active"
       THEN /\ Done("activate", c, "already_active")
            /\ UNCHANGED <<campaigns, nextCampaign, schedules, nextSchedule,
                           jobs, setup, waiting, metrics>>
       ELSE IF campaigns[c].budget <= 0
       THEN /\ Place(Frame("activate", "rb_read", c))
            /\ ev' = NoEvent
            /\ UNCHANGED <<campaigns, nextCampaign, schedules, nextSchedule,
                           jobs, setup, metrics>>
       ELSE /\ nextSchedule <= MaxSchedules
            /\ ActivateBody(c)
            /\ Done("activate", c, "ok")
            /\ UNCHANGED <<nextCampaign, setup, waiting, metrics>>

\* activate_campaign after the rebalance: refresh and check again
ActivateRecheckNonNegative(c) == campaigns[c].budget >= 0

ActivateRecheck(c) == campaigns[c].budget > 0

\* The handler that awaited rebalance_budgets continues.
return_from_rebalance ==
    /\ cur.pc = "ret"
    /\ cancelLog' = <<>>
    /\ waiting' = waiting
    /\ CASE cur.op = "create" ->
              \* the exception, if any, is logged and swallowed
              /\ Done("create", cur.c, "ok")
              /\ UNCHANGED <<campaigns, nextCampaign, schedules, nextSchedule,
                             jobs, setup, metrics>>
         [] cur.op = "activate" ->
              IF cur.res = "raised" \/ cur.c \notin DOMAIN campaigns
              THEN /\ Done("activate", cur.c, "error")
                   /\ UNCHANGED <<campaigns, nextCampaign, schedules,
                                  nextSchedule, jobs, setup, metrics>>
              ELSE IF ActivateRecheck(cur.c)
              THEN /\ ActivateBody(cur.c)
                   /\ Done("activate", cur.c, "ok")
                   /\ UNCHANGED <<nextCampaign, setup, metrics>>
              ELSE /\ Done("activate", cur.c, "error")
                   /\ UNCHANGED <<campaigns, nextCampaign, schedules,
                                  nextSchedule, jobs, setup, metrics>>
         [] OTHER ->
              \* trigger_budget_rebalance (HTTP 500 when it raised) and the
              \* budget_rebalancing job
              /\ Done(cur.op, 0, IF cur.res = "raised" THEN "error" ELSE "ok")
              /\ UNCHANGED <<campaigns, nextCampaign, schedules, nextSchedule,
                             jobs, setup, metrics>>

\* POST /rebalance-budgets
trigger_budget_rebalance ==
    /\ Handler
    /\ Place(Frame("manual_rb", "rb_read", 0))
    /\ ev' = NoEvent
    /\ cancelLog' = <<>>
    /\ UNCHANGED <<campaigns, nextCampaign, schedules, nextSchedule, jobs, setup, metrics>>

\* PUT /campaigns/{id}: every field of the request is written as it comes;
\* CampaignService has no _create_campaign_schedules, so the call made for an
\* active campaign whose frequency changed raises AttributeError after the
\* commit and nothing is rescheduled.
update_campaign(c, fields, budget, status, frequency) ==
    LET old == campaigns[c]
        new == [status |-> IF "status" \in fields THEN status ELSE old.status,
                budget |-> IF "budget" \in fields THEN budget ELSE old.budget,
                frequency |-> IF "frequency" \in fields THEN frequency
                              ELSE old.frequency]
        frequency_changed == "frequency" \in fields /\ frequency # old.frequency
    IN  /\ Handler
        /\ c \in DOMAIN campaigns
        /\ fields # {}
        /\ campaigns' = [campaigns EXCEPT ![c] = new]
        /\ Done("update", c,
                IF frequency_changed /\ new.status = "active"
                THEN "error" ELSE "ok")
        /\ cancelLog' = <<>>
        /\ UNCHANGED <<nextCampaign, schedules, nextSchedule, jobs, setup, waiting, metrics>>

\* POST /campaigns/{id}/pause
pause_campaign(c) ==
    LET r == CancelAll(jobs, JobIdsOf(PendingOf(c)))
    IN  /\ Handler
        /\ c \in DOMAIN campaigns
        /\ jobs' = r.store
        /\ cancelLog' = r.log
        /\ schedules' = MarkPending(schedules, c, "cancelled")
        /\ campaigns' = [campaigns EXCEPT ![c].status = "paused"]
        /\ Done("pause", c, "paused")
        /\ UNCHANGED <<nextCampaign, nextSchedule, setup, waiting, metrics>>

\* Schedule.campaign_id is a required column and Campaign.schedules has no
\* delete cascade: deleting a campaign that has schedule rows makes the flush
\* set their campaign_id to NULL, which the NOT NULL column refuses.
DeleteRefused(c) == HasSchedules(c)

\* DELETE /campaigns/{id}: the jobs are cancelled before the commit is tried
delete_campaign(c) ==
    LET r == CancelAll(jobs, JobIdsOf(PendingOf(c)))
    IN  /\ Handler
        /\ c \in DOMAIN campaigns
        /\ jobs' = r.store
        /\ cancelLog' = r.log
        /\ IF DeleteRefused(c)
           THEN /\ campaigns' = campaigns
                /\ metrics' = metrics
                /\ Done("delete", c, "error")
           ELSE /\ campaigns' = [k \in DOMAIN campaigns \ {c} |-> campaigns[k]]
                \* Metric.campaign_id is optional: the rows stay, with NULL
                /\ metrics' = [i \in 1..Len(metrics) |->
                                  IF metrics[i] = c THEN 0 ELSE metrics[i]]
                /\ Done("delete", c, "ok")
        /\ UNCHANGED <<nextCampaign, schedules, nextSchedule, setup, waiting>>

\* ------------------------------------------------------------ schedules
\* POST /schedules
create_schedule(c, recurring, scheduled_time) ==
    LET id == UuidJobId(nextSchedule)
    IN  /\ Handler
        /\ c \in DOMAIN campaigns
        /\ campaigns[c].status = "active"
        /\ nextSchedule <= MaxSchedules
        /\ schedules' = Append(schedules,
                               [id |-> nextSchedule, c |-> c,
                                status |-> "pending", job |-> id,
                                time |-> scheduled_time])
        /\ nextSchedule' = nextSchedule + 1
        /\ jobs' = IF recurring
                   THEN schedule_recurring_campaign(jobs, c,
                                                    campaigns[c].frequency, id)
                   ELSE schedule_campaign_execution(jobs, c, id)
        /\ Done("create_schedule", c, "ok")
        /\ cancelLog' = <<>>
        /\ UNCHANGED <<campaigns, nextCampaign, setup, waiting, metrics>>

\* Statuses a ScheduleUpdate request can write.
ScheduleUpdateStatuses == {"pending", "completed"}

\* PUT /schedules/{id}
update_schedule(i, fields, status, scheduled_time) ==
    LET old == schedules[i]
        new == [old EXCEPT
                   !.status = IF "status" \in fields THEN status ELSE @,
                   !.time = IF "scheduled_time" \in fields
                            THEN scheduled_time ELSE @]
        reschedule == "scheduled_time" \in fields /\ new.status = "pending"
        r == cancel_job(jobs, old.job)
    IN  /\ Handler
        /\ i \in 1..Len(schedules)
        /\ fields # {}
        /\ schedules' = [schedules EXCEPT ![i] = new]
        /\ IF reschedule
           THEN /\ jobs' = schedule_campaign_execution(r.store, old.c, old.job)
                /\ cancelLog' = <<CancelEntry(jobs, old.job)>>
           ELSE /\ jobs' = jobs
                /\ cancelLog' = <<>>
        /\ Done("update_schedule", old.c, "ok")
        /\ UNCHANGED <<campaigns, nextCampaign, nextSchedule, setup, waiting, metrics>>

\* DELETE /schedules/{id}
delete_schedule(i) ==
    LET old == schedules[i]
        r == cancel_job(jobs, old.job)
    IN  /\ Handler
        /\ i \in 1..Len(schedules)
        /\ IF old.status = "pending"
           THEN /\ jobs' = r.store
                /\ cancelLog' = <<CancelEntry(jobs, old.job)>>
           ELSE /\ jobs' = jobs
                /\ cancelLog' = <<>>
        /\ schedules' = RemoveAt(schedules, i)
        /\ Done("delete_schedule", old.c, "ok")
        /\ UNCHANGED <<campaigns, nextCampaign, nextSchedule, setup, waiting, metrics>>

\* ------------------------------------------------------------ execution
\* POST /execute-campaign/{id}: the run is queued as a background task
execute_campaign_now(c) ==
    /\ Handler
    /\ c \in DOMAIN campaigns
    /\ campaigns[c].status = "active"
    /\ Len(waiting) < MaxRuns
    /\ Len(metrics) + Len(waiting) < MaxMetrics
    /\ waiting' = Append(waiting, Frame("exec", "start", c))
    /\ Done("execute_now", c, "ok")
    /\ cancelLog' = <<>>
    /\ UNCHANGED <<campaigns, nextCampaign, schedules, nextSchedule, jobs, setup, metrics>>

IsNotDraft(c) == campaigns[c].status # "draft"

\* execute_campaign, line 142: campaign.status != "active" skips the run
IsActive(c) == campaigns[c].status = "active"

\* CampaignService.execute_campaign, lines 137-177: the checks, the crew, up
\* to the await of execute_crew
execute_campaign_start ==
    LET c == cur.c
    IN  /\ cur.op = "exec"
        /\ cur.pc = "start"
        /\ cancelLog' = <<>>
        /\ IF c \notin DOMAIN campaigns
           THEN /\ Done("execute", c, "not_found")
                /\ UNCHANGED <<schedules, waiting, metrics>>
           ELSE IF ~IsActive(c)
           THEN /\ Done("execute", c, "skipped")
                /\ UNCHANGED <<schedules, waiting, metrics>>
           ELSE IF ~setup
           THEN /\ Done("execute", c, "no_setup")
                /\ UNCHANGED <<schedules, waiting, metrics>>
           ELSE \/ \* create_campaign_crew raises
                   /\ schedules' = MarkPending(schedules, c, "failed")
                   /\ Done("execute", c, "failed")
                   /\ waiting' = waiting
                \/ /\ Place([cur EXCEPT !.pc = "crew"])
                   /\ ev' = NoEvent
                   /\ schedules' = schedules
        /\ UNCHANGED <<campaigns, nextCampaign, nextSchedule, jobs, setup, metrics>>

\* What crew.kickoff (content, compliance, publish) can come to.
CrewOutcomes == {"success", "error"}

\* execute_crew: an exception of crew.kickoff is caught and returned as a
\* status; the caller does not look at it.
CrewResult(outcome) ==
    IF outcome = "success" THEN "completed" ELSE "completed_crew_error"

\* execute_campaign has no loop and schedules no retry: the run in a frame is
\* its first and only attempt.
AttemptsOf(f) == IF f.op = "exec" THEN 1 ELSE 0

\* The outcomes of execute_campaign that are an exception leaving it.
Raises(res) ==
    res \in {"not_found", "no_setup", "failed", "raised_after_commit"}

store_metrics_nowhere(rows, c) == rows

\* generate_and_store_metrics, lines 152-165: one Metric row of the campaign
\* is added and committed
store_metrics(rows, c) == Append(rows, c)

\* execute_campaign, lines 178-218: execute_crew has returned (it returns a
\* status, it never raises), the metric is generated and stored, the pending
\* schedules marked
execute_campaign_finish ==
    LET c == cur.c
    IN  /\ cur.op = "exec"
        /\ cur.pc = "crew"
        /\ cancelLog' = <<>>
        /\ waiting' = waiting
        /\ \/ \* generate_and_store_metrics raises
              /\ schedules' = MarkPending(schedules, c, "failed")
              /\ metrics' = metrics
              /\ Done("execute", c, "failed")
           \/ \E outcome \in CrewOutcomes, game_running \in BOOLEAN :
              /\ c \in DOMAIN campaigns
              /\ metrics' = store_metrics(metrics, c)
              /\ schedules' = MarkPending(schedules, c, "completed")
              \* With a running GameState the second commit of
              \* generate_and_store_metrics expires the Metric it returns;
              \* metric.id (line 200) then raises on the detached row,
              \* after the schedules were committed as completed.
              /\ Done("execute", c, IF game_running THEN "raised_after_commit"
                                    ELSE CrewResult(outcome))
        /\ UNCHANGED <<campaigns, nextCampaign, nextSchedule, jobs, setup>>

\* collect_campaign_metrics, line 94: its first statement calls ensure_uuid,
\* which metrics_gather_agent neither defines nor imports; the NameError is
\* raised before any client is asked and before any await suspends.
collect_campaign_metrics(c) == "NameError"

\* POST /metrics/collect, collect_all_metrics: the loop over the active
\* campaigns.  The except block of the loop calls ensure_str, the other
\* missing name, so the error of the first campaign leaves the loop and the
\* function; the commit after the loop is reached only when no campaign is
\* active.
collect_all_metrics ==
    /\ Handler
    /\ cancelLog' = <<>>
    /\ IF ActiveIds(campaigns) = {}
       THEN Done("collect", 0, "ok")
       ELSE \E first \in ActiveIds(campaigns) :
               /\ collect_campaign_metrics(first) = "NameError"
               /\ Done("collect", first, "error")
    /\ UNCHANGED <<campaigns, nextCampaign, schedules, nextSchedule, jobs,
                   setup, waiting, metrics>>

\* A job of the store comes due.  Campaign jobs run execute_campaign on the
\* thread pool executor: the call of the coroutine function only builds a
\* coroutine object that nothing awaits, so no line of its body runs.  The
\* budget_rebalancing job runs on the AsyncIOExecutor, as a task of the loop.
\* A date job leaves the store once it has fired.
fire_job(j) ==
    /\ Handler
    /\ j \in DOMAIN jobs
    /\ cancelLog' = <<>>
    /\ jobs' = IF jobs[j].trigger = "date" THEN remove_job(jobs, j).store ELSE jobs
    /\ IF j = RebalancingJobId
       THEN /\ Place(Frame("job_rb", "rb_read", 0))
            /\ ev' = NoEvent
       ELSE /\ Done("fire", jobs[j].c, "never_awaited")
            /\ waiting' = waiting
    /\ UNCHANGED <<campaigns, nextCampaign, schedules, nextSchedule, setup, metrics>>

\* ------------------------------------------------------------ specification
Init ==
    /\ campaigns = <<>>
    /\ nextCampaign = 1
    /\ schedules = <<>>
    /\ nextSchedule = 1
    /\ jobs = <<>>
    /\ setup = FALSE
    /\ cur = Idle
    /\ waiting = <<>>
    /\ cancelLog = <<>>
    /\ ev = NoEvent
    /\ metrics = <<>>

JobIds ==
    {RebalancingJobId} \cup {RecurringJobId(c) : c \in CampaignIds}
        \cup {UuidJobId(n) : n \in ScheduleIds}

Next ==
    \/ \E f \in Frequencies : initialize_setup(f)
    \/ \E request \in CampaignRequests : create_campaign(request)
    \/ \E c \in CampaignIds : activate_campaign(c)
    \/ \E c \in CampaignIds, fields \in SUBSET {"budget", "status", "frequency"} :
        \E b \in IF "budget" \in fields THEN UserBudgets ELSE {0},
           st \in IF "status" \in fields THEN UpdateStatuses ELSE {"active"},
           f \in IF "frequency" \in fields THEN Frequencies ELSE {"weekly"} :
            update_campaign(c, fields, b, st, f)
    \/ \E c \in CampaignIds : pause_campaign(c)
    \/ \E c \in CampaignIds : delete_campaign(c)
    \/ \E c \in CampaignIds, recurring \in BOOLEAN, t \in RequestTimes :
           create_schedule(c, recurring, t)
    \/ \E i \in ScheduleIds, fields \in SUBSET {"scheduled_time", "status"} :
        \E st \in IF "status" \in fields THEN ScheduleUpdateStatuses
                  ELSE {"pending"},
           t \in IF "scheduled_time" \in fields THEN RequestTimes ELSE {0} :
            update_schedule(i, fields, st, t)
    \/ \E i \in ScheduleIds : delete_schedule(i)
    \/ rebalance_read
    \/ rebalance_solve
    \/ return_from_rebalance
    \/ \E j \in JobIds : fire_job(j)

Spec == Init /\ [][Next]_vars

\* ---- the execution runs
\* A database in which the first campaign has been given a budget and
\* activated (POST /campaigns, PUT budget, POST activate): its recurring job
\* and one pending schedule record exist.
RunFrequency == "weekly"

InitRun ==
    /\ campaigns = <<[status |-> "active", budget |-> 200,
                      frequency |-> RunFrequency]>>
    /\ nextCampaign = 2
    /\ schedules = <<[id |-> 1, c |-> 1, status |-> "pending",
                      job |-> RecurringJobId(1), time |-> 1]>>
    /\ nextSchedule = 2
    /\ jobs = schedule_recurring_campaign(<<>>, 1, RunFrequency,
                                          RecurringJobId(1))
    /\ setup = FALSE
    /\ cur = Idle
    /\ waiting = <<>>
    /\ cancelLog = <<>>
    /\ ev = NoEvent
    /\ metrics = <<>>

\* The manual and the scheduled dispatch of runs, next to the requests that
\* change what a run finds: status writes, pause, activation, deletion.
NextRun ==
    \/ initialize_setup(RunFrequency)
    \/ \E st \in UpdateStatuses :
           update_campaign(1, {"status"}, 0, st, RunFrequency)
    \/ activate_campaign(1)
    \/ pause_campaign(1)
    \/ delete_campaign(1)
    \/ \E i \in ScheduleIds : delete_schedule(i)
    \/ rebalance_read
    \/ rebalance_solve
    \/ return_from_rebalance
    \/ execute_campaign_now(1)
    \/ Resume
    \/ execute_campaign_start
    \/ execute_campaign_finish
    \/ \E j \in JobIds : fire_job(j)

SpecRun == InitRun /\ [][NextRun]_vars

\* ---- the budget pool
\* A database in which PoolSize campaigns exist, as POST /campaigns and
\* PUT /campaigns/{id} (budget, status) leave them: no schedule, no job.
\* All but the first may still be drafts.
PoolSize == 3
PoolIds == 1..PoolSize
PoolBudgets == {0, 400, 800}

PoolRows(S, statuses) ==
    [S -> [status : statuses, budget : PoolBudgets, frequency : {"weekly"}]]

InitPool ==
    /\ campaigns \in {cs \in PoolRows(PoolIds, {"draft", "active"}) :
                         cs[1].status = "active"}
    /\ nextCampaign = PoolSize + 1
    /\ schedules = <<>>
    /\ nextSchedule = 1
    /\ jobs = <<>>
    /\ setup = FALSE
    /\ cur = Idle
    /\ waiting = <<>>
    /\ cancelLog = <<>>
    /\ ev = NoEvent
    /\ metrics = <<>>

\* Every trigger of rebalance_budgets over the pool: the manual endpoint, the
\* budget_rebalancing job, activate_campaign on a campaign without budget.
NextRebalance ==
    \/ initialize_setup("weekly")
    \/ trigger_budget_rebalance
    \/ fire_job(RebalancingJobId)
    \/ \E c \in PoolIds : activate_campaign(c)
    \/ rebalance_read
    \/ rebalance_solve
    \/ rebalance_write
    \/ return_from_rebalance

SpecRebalance == InitPool /\ [][NextRebalance]_vars

\* ---- the event loop
\* Two active campaigns with budgets, whose execution runs (suspended in the
\* crew) share the loop with every trigger of rebalance_budgets.
LoopIds == 1..2

InitLoop ==
    /\ campaigns \in PoolRows(LoopIds, {"active"})
    /\ nextCampaign = 3
    /\ schedules = <<>>
    /\ nextSchedule = 1
    /\ jobs = <<>>
    /\ setup = FALSE
    /\ cur = Idle
    /\ waiting = <<>>
    /\ cancelLog = <<>>
    /\ ev = NoEvent
    /\ metrics = <<>>

NextLoop ==
    \/ initialize_setup("weekly")
    \/ trigger_budget_rebalance
    \/ fire_job(RebalancingJobId)
    \/ rebalance_read
    \/ rebalance_solve
    \/ rebalance_write
    \/ return_from_rebalance
    \/ \E c \in LoopIds : execute_campaign_now(c)
    \/ collect_all_metrics
    \/ Resume
    \/ execute_campaign_start
    \/ execute_campaign_finish

SpecLoop == InitLoop /\ [][NextLoop]_vars

\* ---- new campaigns next to a funded pool
\* A database in which two campaigns are active (their budgets as PUT left
\* them) and no campaign has been created through POST /campaigns yet.  The
\* rows carry ids outside CampaignIds: the ids are uuids, their order means
\* nothing.
ExistingIds == {NumCampaigns + 1, NumCampaigns + 2}

InitCreate ==
    /\ campaigns \in PoolRows(ExistingIds, {"active"})
    /\ nextCampaign = 1
    /\ schedules = <<>>
    /\ nextSchedule = 1
    /\ jobs = <<>>
    /\ setup = FALSE
    /\ cur = Idle
    /\ waiting = <<>>
    /\ cancelLog = <<>>
    /\ ev = NoEvent
    /\ metrics = <<>>

\* The life of a new campaign without any PUT: creation, activation, and
\* every other trigger of rebalance_budgets.
NextCreate ==
    \/ \E request \in CampaignRequests : create_campaign(request)
    \/ \E c \in CampaignIds : activate_campaign(c)
    \/ trigger_budget_rebalance
    \/ rebalance_read
    \/ rebalance_solve
    \/ rebalance_write
    \/ return_from_rebalance

SpecCreate == InitCreate /\ [][NextCreate]_vars

\* The same, with the requests that matter made again and again: the
\* campaign is created, its activation is asked for as often as the loop is
\* free, and a handler that holds the loop runs to its end.
SpecCreateFair ==
    /\ SpecCreate
    /\ SF_vars(\E request \in CampaignRequests : create_campaign(request))
    /\ SF_vars(\E c \in CampaignIds : activate_campaign(c))
    /\ WF_vars(rebalance_read \/ rebalance_solve \/ rebalance_write
                  \/ return_from_rebalance)

\* ------------------------------------------------------------ properties
\* The execution runs of campaign c that are in progress: started and not
\* yet finished, parked in the crew or holding the loop.
RunsInProgress(c) ==
    Cardinality({i \in 1..Len(waiting) :
                    /\ waiting[i].op = "exec"
                    /\ waiting[i].pc = "crew"
                    /\ waiting[i].c = c})
        + (IF cur.op = "exec" /\ cur.pc = "crew" /\ cur.c = c THEN 1 ELSE 0)

\* C1: at any time at most one execution run of a campaign is in progress,
\* however the runs were dispatched.
C1_OneRunPerCampaign ==
    \A c \in CampaignIds : RunsInProgress(c) <= 1

\* C2: a proposal the solver returned with success sums to the total budget
\* of the active campaigns, and each proposed budget lies between
\* MIN_CAMPAIGN_BUDGET and MAX_BUDGET_ALLOCATION_PERCENT of that total.
C2_ProposalWithinBounds ==
    cur.pc = "rb_write" =>
        LET total == Sum(ReadBudgets(campaigns))
        IN  /\ DOMAIN cur.prop = ActiveIds(campaigns)
            /\ Sum(cur.prop) = total
            /\ \A i \in DOMAIN cur.prop :
                /\ cur.prop[i] >= MIN_CAMPAIGN_BUDGET
                /\ 100 * cur.prop[i] <= MAX_BUDGET_ALLOCATION_PERCENT * total

\* A successful proposal for three active campaigns that moves a budget.
C2_Witness ==
    /\ cur.pc = "rb_write"
    /\ Cardinality(DOMAIN cur.prop) = 3
    /\ \E i \in DOMAIN cur.prop : cur.prop[i] # cur.snap[i]

\* C3: the write phase changes a campaign's budget only when the proposed
\* change is more than 15% of the old budget; every other campaign keeps its
\* budget exactly and is not in the result list.
C3_OnlySignificantChangesApplied ==
    [][cur.pc = "rb_write" =>
        \A c \in DOMAIN campaigns :
            LET old == campaigns[c].budget
                significant ==
                    /\ c \in DOMAIN cur.prop
                    /\ 100 * Abs(cur.prop[c] - old)
                           > REBALANCING_THRESHOLD_PERCENT * old
            IN  IF significant
                THEN /\ campaigns'[c].budget = cur.prop[c]
                     /\ c \in cur'.out
                ELSE /\ campaigns'[c].budget = old
                     /\ c \notin cur'.out]_vars

\* A rebalance returned having updated some active campaigns and left
\* others as they were.
C3_Witness ==
    /\ cur.pc = "ret"
    /\ cur.res = "applied"
    /\ cur.out # {}
    /\ ActiveIds(campaigns) \ cur.out # {}

\* C4: a rebalance over inputs the solver cannot serve ends as a no-op with
\* an empty result; it never ends in an exception.
C4_InfeasibleIsNoOp ==
    cur.pc = "ret" => cur.res # "raised"

InRebalance(f) == f.pc \in {"rb_solve", "rb_write"}

\* C5: two rebalance runs never interleave: no run is parked between its
\* read and its write, and the run that holds the loop works on the budgets
\* that are in the table.
C5_RebalanceRunsDoNotInterleave ==
    /\ \A i \in 1..Len(waiting) : ~InRebalance(waiting[i])
    /\ InRebalance(cur) => cur.snap = ReadBudgets(campaigns)

\* A rebalance about to write a changed budget while execution runs are
\* parked on the loop.
C5_Witness ==
    /\ cur.pc = "rb_write"
    /\ cur.prop # cur.snap
    /\ \E i \in 1..Len(waiting) : waiting[i].pc = "crew"

\* C6: when pause_campaign has returned, no job of that campaign is left in
\* the job store.
C6_PauseLeavesNoJob ==
    ev.op = "pause" =>
        \A j \in DOMAIN jobs : jobs[j].c # ev.c

\* C7: when the frequency of an active campaign is updated, its recurring
\* job is scheduled anew with the interval of the new frequency.
C7_UpdateReschedules ==
    [][\A c \in DOMAIN campaigns \cap DOMAIN campaigns' :
        (/\ campaigns[c].status = "active"
         /\ campaigns'[c].status = "active"
         /\ campaigns'[c].frequency # campaigns[c].frequency
         /\ RecurringJobId(c) \in DOMAIN jobs)
        => /\ RecurringJobId(c) \in DOMAIN jobs'
           /\ jobs'[RecurringJobId(c)].every
                  = IntervalHours(campaigns'[c].frequency)]_vars

\* C8: activating a campaign without budget runs the rebalance first; while
\* the campaign's budget is not positive no step of the activation changes
\* its status, the job store or the schedules, and the activation ends in an
\* error.
C8_ZeroBudgetActivationFails ==
    [][/\ (cur = Idle /\ cur'.op = "activate") =>
            /\ cur'.pc = "rb_read"
            /\ campaigns[cur'.c].budget <= 0
            /\ UNCHANGED <<campaigns, jobs, schedules>>
       /\ (cur.op = "activate" /\ campaigns[cur.c].budget <= 0) =>
            /\ campaigns'[cur.c].status = campaigns[cur.c].status
            /\ UNCHANGED <<jobs, schedules>>
            /\ cur.pc = "ret" =>
                   ev' = [op |-> "activate", c |-> cur.c, res |-> "error"]]_vars

\* The activation of a draft without budget has failed after a rebalance
\* that changed the budgets of the active campaigns.
C8_Witness ==
    /\ ev = [op |-> "activate", c |-> PoolSize, res |-> "error"]
    /\ campaigns[PoolSize].status = "draft"
    /\ campaigns[PoolSize].budget = 0
    /\ \E c \in ActiveIds(campaigns) : campaigns[c].budget \notin PoolBudgets

\* C9: no job of the store refers to a campaign that has been deleted.
C9_NoJobOfDeletedCampaign ==
    \A j \in DOMAIN jobs : jobs[j].c = 0 \/ jobs[j].c \in DOMAIN campaigns

\* C10: cancel_job never raises; it returns true exactly when the job was in
\* the store, the job is not in the store afterwards, and the other jobs are
\* untouched (so a second cancel of the same id returns false and changes
\* nothing).
C10_CancelIsSafe ==
    \A i \in 1..Len(cancelLog) :
        LET e == cancelLog[i]
        IN  /\ ~e.raised
            /\ e.ret = e.had
            /\ e.gone
            /\ e.kept

\* The same job id cancelled twice by one handler: removed, then absent.
C10_Witness ==
    \E i, j \in 1..Len(cancelLog) :
        /\ i < j
        /\ cancelLog[i].job = cancelLog[j].job
        /\ cancelLog[i].ret
        /\ ~cancelLog[j].ret

C12_InactiveRunIsDropped ==
    [][(/\ cur.op = "exec"
        /\ cur.pc = "start"
        /\ cur.c \in DOMAIN campaigns
        /\ campaigns[cur.c].status # "active")
       => /\ cur' = Idle
          /\ waiting' = waiting
          /\ schedules' = schedules
          /\ metrics' = metrics
          /\ ev' = [op |-> "execute", c |-> cur.c, res |-> "skipped"]
          /\ ~Raises(ev'.res)]_vars

\* A run of a paused campaign was dropped while a schedule record of the
\* campaign is pending.
C12_Witness ==
    /\ ev = [op |-> "execute", c |-> 1, res |-> "skipped"]
    /\ 1 \in DOMAIN campaigns
    /\ campaigns[1].status = "paused"
    /\ \E i \in 1..Len(schedules) : schedules[i].status = "pending"

\* A schedule record goes from pending to status st in this step.
Becomes(st) ==
    /\ Len(schedules') = Len(schedules)
    /\ \E i \in 1..Len(schedules) :
        /\ schedules[i].status = "pending"
        /\ schedules'[i].status = st

\* C13: a run marks a schedule record completed only when its publish step
\* (the crew) succeeded and a metric row was added.
C13_CompletedOnlyAfterPublish ==
    [][(cur.op = "exec" /\ Becomes("completed"))
       => /\ ev'.res = CrewResult("success")
          /\ Len(metrics') = Len(metrics) + 1]_vars

\* C14: a run marks a schedule record failed only when the attempt that
\* raised was at least the CAMPAIGN_RETRY_ATTEMPTS-th.
C14_FailedOnlyAfterRetries ==
    [][(cur.op = "exec" /\ Becomes("failed"))
       => AttemptsOf(cur) >= CAMPAIGN_RETRY_ATTEMPTS]_vars

\* C15: a schedule record that is completed or cancelled keeps that status
\* as long as it exists.
C15_TerminalStatuses ==
    [][\A i \in 1..Len(schedules), j \in 1..Len(schedules') :
        (/\ schedules[i].id = schedules'[j].id
         /\ schedules[i].status \in {"completed", "cancelled"})
        => schedules'[j].status = schedules[i].status]_vars

\* C16: when a job of an active campaign comes due, a run of that campaign
\* is handed to the loop (started now or queued).
C16_DueJobIsExecuted ==
    [][(/\ ev'.op = "fire"
        /\ ev'.c \in DOMAIN campaigns
        /\ campaigns[ev'.c].status = "active")
       => /\ Len(waiting') = Len(waiting) + 1
          /\ waiting'[Len(waiting')].op = "exec"
          /\ waiting'[Len(waiting')].c = ev'.c]_vars

\* C17: a run whose campaign no longer exists ends without an exception and
\* without being recorded as a failure.
C17_MissingCampaignIsDropped ==
    (ev.op = "execute" /\ ev.c \notin DOMAIN campaigns) => ~Raises(ev.res)

\* C18: no interval job is put into the store for a campaign whose frequency
\* is outside daily, weekly, monthly.
C18_InvalidFrequencyRejected ==
    [][\A j \in DOMAIN jobs' :
        (/\ j \notin DOMAIN jobs \/ jobs'[j] # jobs[j]
         /\ jobs'[j].trigger = "interval"
         /\ jobs'[j].c \in DOMAIN campaigns)
        => campaigns[jobs'[j].c].frequency \in {"daily", "weekly", "monthly"}]_vars

\* C19: the budget of a campaign changes only in the write phase of a
\* rebalance run.
C19_BudgetOnlyByOptimizer ==
    [][\A c \in DOMAIN campaigns \cap DOMAIN campaigns' :
        campaigns'[c].budget # campaigns[c].budget => cur.pc = "rb_write"]_vars

\* C20: in a rebalance run over exactly one active campaign, every step
\* after the read leaves that campaign with the whole total budget.
C20_SingleCampaignKeepsTotal ==
    [][(InRebalance(cur) /\ Cardinality(DOMAIN cur.snap) = 1)
       => \A c \in DOMAIN cur.snap :
              campaigns'[c].budget = total_budget(cur.snap)]_vars

\* A rebalance run over one active campaign with a budget has returned.
C20_Witness ==
    /\ cur.pc = "ret"
    /\ cur.res = "failed"
    /\ Cardinality(ActiveIds(campaigns)) = 1
    /\ \A c \in ActiveIds(campaigns) : campaigns[c].budget > 0

\* C21: for every campaign, the scheduled timestamps of its occurrences are
\* strictly increasing in the order in which the occurrences were created.
C21_TimestampsIncrease ==
    \A i, j \in 1..Len(schedules) :
        (i < j /\ schedules[i].c = schedules[j].c)
            => schedules[i].time < schedules[j].time

\* C22: a run that ends with an occurrence of its campaign completed appends
\* exactly one metric row, of that campaign; a run that ends with an
\* occurrence failed, or that is skipped, appends none.
C22_OneMetricPerCompletedRun ==
    [][cur.op = "exec"
       => /\ Becomes("completed") => metrics' = Append(metrics, cur.c)
          /\ (Becomes("failed") \/ ev'.res = "skipped")
                 => metrics' = metrics]_vars

C22_Witness ==
    /\ ev.op = "execute"
    /\ ev.res = CrewResult("success")
    /\ \E i \in 1..Len(schedules) :
           schedules[i].c = ev.c /\ schedules[i].status = "completed"
    /\ metrics = <<ev.c>>

\* C23: a schedule record becomes completed or failed only from the status
\* executing, never directly from pending.
C23_TerminalOnlyFromExecuting ==
    [][\A i \in 1..Len(schedules), j \in 1..Len(schedules') :
        (/\ schedules[i].id = schedules'[j].id
         /\ schedules'[j].status \in {"completed", "failed"}
         /\ schedules'[j].status # schedules[i].status)
        => schedules[i].status = "executing"]_vars

\* The schedule records whose status differs before and after the step.
StatusChanged ==
    {i \in 1..Len(schedules) :
        \E j \in 1..Len(schedules') :
            /\ schedules'[j].id = schedules[i].id
            /\ schedules'[j].status # schedules[i].status}

\* C24: a step of an execution run changes the status of at most one
\* schedule record; the campaign's other pending records stay pending.
C24_RunMarksOneOccurrence ==
    [][cur.op = "exec" => Cardinality(StatusChanged) <= 1]_vars

\* C25: a metrics-collection pass reaches its commit whatever happens for one
\* of the active campaigns, and a step of a campaign's execution run leaves
\* the job store and the schedule records of the other campaigns unchanged.
C25_FailureStaysLocal ==
    [][/\ (cur = Idle /\ ev'.op = "collect") => ev'.res # "error"
       /\ cur.op = "exec"
            => /\ jobs' = jobs
               /\ SelectSeq(schedules', LAMBDA r : r.c # cur.c)
                    = SelectSeq(schedules, LAMBDA r : r.c # cur.c)]_vars

C27_NewCampaignBecomesActive ==
    <>(\E c \in CampaignIds :
          c \in DOMAIN campaigns /\ campaigns[c].status = "active")

\* C28: the write phase of a rebalance run leaves the sum of the budgets of
\* the active campaigns as it was, also when the gate applies only some of
\* the proposed changes.
C28_PoolConserved ==
    [][cur.pc = "rb_write"
       => Sum(ReadBudgets(campaigns')) = Sum(ReadBudgets(campaigns))]_vars

\* C29: every campaign whose status is active has a budget above zero.
C29_ActiveHasBudget ==
    \A c \in DOMAIN campaigns :
        campaigns[c].status = "active" => campaigns[c].budget > 0

\* C30: every pending schedule record has its job in the job store, and every
\* campaign job of the store is the job of a pending schedule record.
C30_RecordsMatchJobs ==
    /\ \A i \in 1..Len(schedules) :
           schedules[i].status = "pending" => schedules[i].job \in DOMAIN jobs
    /\ \A j \in DOMAIN jobs \ {RebalancingJobId} :
           \E i \in 1..Len(schedules) :
               schedules[i].status = "pending" /\ schedules[i].job = j

====
